---- MODULE Spec2Model ----
(***************************************************************************)
(* A model of the CHIP-8 interpreter core of src/src/interpreter.rs (and   *)
(* of the duplicated Stack and Timers of src/src/main.rs): the byte stack, *)
(* the memory with load_program and fetch_instruction, the instruction     *)
(* decoder from_raw / nibble_left and the wall-clock driven timers.        *)
(*                                                                         *)
(* A Rust panic (an explicit panic!, a failed assert!, an out-of-bounds    *)
(* index) ends the run: it is recorded in `halted`, and no operation is    *)
(* enabled afterwards.                                                     *)
(***************************************************************************)
EXTENDS Integers, Sequences, FiniteSets, TLC

\* ---------------------------------------------------------------- constants

SCREEN_WIDTH == 64
SCREEN_HEIGHT == 32
STACK_SIZE == 48
MEMORY_SIZE == 4096
TIMER_DECREMENT_FREQUENCY == 60
PC_START_ADDRESS == 512
FONT_START_ADDRESS == 80

FONT ==
  << 240, 144, 144, 144, 240,
      32,  96,  32,  32, 112,
     240,  16, 240, 128, 240,
     240,  16, 240,  16, 240,
     144, 144, 240,  16,  16,
     240, 128, 240,  16, 240,
     240, 128, 240, 144, 240,
     240,  16,  32,  64,  64,
     240, 144, 240, 144, 240,
     240, 144, 240,  16, 240,
     240, 144, 240, 144, 144,
     224, 144, 224, 144, 224,
     240, 128, 128, 128, 240,
     224, 144, 144, 144, 224,
     240, 128, 240, 128, 240,
     240, 128, 240, 128, 128 >>

\* ------------------------------------------------------------------- inputs

\* Stack cells below VariedDepth are pushed with any byte of PushBytes; the
\* cells above it with the one byte FillByte gives for the cell.
VariedDepth == 2

PushBytes == {10, 20, 30}

FillByte(pos) == 255 - pos

PushInputs(pos) == IF pos < VariedDepth THEN PushBytes ELSE {FillByte(pos)}

\* load_program is called at most MaxLoads times in a run, each time before
\* or within the first MaxFetchesBeforeLoad fetches.
MaxLoads == 2

MaxFetchesBeforeLoad == 2

\* The ROM images load_program is given: RomOf(len, seed) for the lengths and
\* seeds of RomInputs. Seed 0 gives the bytes 0, 1, 2, ... of tests::PROGRAM.
RomByte(seed, k) == (seed + k * (2 * seed + 1)) % 256

RomOf(len, seed) == [k \in 1 .. len |-> RomByte(seed, k - 1)]

RomInputs ==
  { RomOf(0, 0), RomOf(10, 0), RomOf(4, 7),
    RomOf(MEMORY_SIZE - PC_START_ADDRESS, 3),
    RomOf(MEMORY_SIZE - PC_START_ADDRESS + 1, 5) }

\* Time is counted in sub-ticks: SubTicks of them make one timer tick of
\* 1/60 s, so the clock runs at ClockHz sub-ticks a second. Elapsed times
\* and the rounding remainder are whole numbers of sub-ticks.
SubTicks == 4

ClockHz == TIMER_DECREMENT_FREQUENCY * SubTicks

\* decrement_timers is called at most MaxDecrements times in a run.
MaxDecrements == 4

\* The elapsed times (now - last_update) a decrement_timers call measures:
\* none, fractions of a tick, a few ticks, and 255 ticks and more.
Deltas == {0, 1, SubTicks - 1, SubTicks, 2 * SubTicks + 1, 255 * SubTicks, 256 * SubTicks + 1}

\* The values the engine sets the timers to.
DelayValues == {0, 2, 255}

SoundValues == {0, 1, 3}

\* ------------------------------------------------------------------- state

VARIABLES
  data,       \* Stack.data
  position,   \* Stack.position
  ref,        \* a reference LIFO sequence run beside the stack
  memory,     \* Interpreter.memory
  pc,         \* Interpreter.pc
  i,          \* Interpreter.i
  registers,  \* Interpreter.registers
  screen_buffer, \* Interpreter.screen_buffer, row by row
  program,    \* the bytes the last load_program call was given
  loads,      \* the number of load_program calls made
  timers,     \* interpreter.rs Timers: delay_timer, sound_timer, rounding_remainder
  mtimers,    \* main.rs Timers
  calls,      \* the number of decrement_timers calls made
  epoch,      \* both Timers as they were when a timer was last set (or at
              \* construction), and the time elapsed since
  op,         \* the operation that ran last
  arg,        \* its argument
  ret,        \* what it returned
  halted      \* "none", or the panic that ended the run

vars ==
  <<data, position, ref, memory, pc, i, registers, screen_buffer, program, loads,
    timers, mtimers, calls, epoch, op, arg, ret, halted>>

stackVars == <<data, position, ref>>
memVars == <<memory, pc, program, loads>>
regVars == <<i, registers, screen_buffer>>
timerVars == <<timers, mtimers, calls, epoch>>

Running == halted = "none"

Unit == <<"unit">>
Panicked == <<"panic">>
None == <<"None">>
Some(v) == <<"Some", v>>

\* ------------------------------------------------------------- construction

\* Stack::new
StackNew == [data |-> [c \in 0 .. STACK_SIZE - 1 |-> 0], position |-> 0]

\* Timers::new (rounding_remainder in sub-ticks)
TimersNew == [delay_timer |-> 0, sound_timer |-> 0, rounding_remainder |-> 0]

\* The memory array [u8; MEMORY_SIZE] is held in pages of PageSize bytes:
\* the byte at address a is Byte(mem, a), for a in 0 .. MEMORY_SIZE - 1.
PageSize == 2 ^ 6

Byte(mem, a) == mem[a \div PageSize][a % PageSize]

Pages == 0 .. MEMORY_SIZE \div PageSize - 1

Offsets == 0 .. PageSize - 1

\* Interpreter::new: zeroed memory with the font copied to FONT_START_ADDRESS
FontOrZero(a) ==
  IF a >= FONT_START_ADDRESS /\ a < FONT_START_ADDRESS + Len(FONT)
    THEN FONT[a - FONT_START_ADDRESS + 1]
    ELSE 0

MemoryNew == [p \in Pages |-> [k \in Offsets |-> FontOrZero(p * PageSize + k)]]

\* The value of a variable whose object the run has not constructed.
Absent == <<>>

\* let mut stack = Stack::new()
StackConstructed ==
  /\ data = StackNew.data
  /\ position = StackNew.position
  /\ ref = <<>>

\* let mut timers = Timers::new(), for the Timers of both files
TimersConstructed ==
  /\ timers = TimersNew
  /\ mtimers = TimersNew
  /\ calls = 0
  /\ epoch = [timers |-> TimersNew, mtimers |-> TimersNew, elapsed |-> 0]

\* the fields of Interpreter::new() other than stack and timers
InterpreterFields ==
  /\ memory = MemoryNew
  /\ pc = PC_START_ADDRESS
  /\ i = 0
  /\ registers = [r \in 0 .. 15 |-> 0]
  /\ screen_buffer = [y \in 0 .. SCREEN_HEIGHT - 1 |-> [x \in 0 .. SCREEN_WIDTH - 1 |-> 0]]
  /\ program = <<>>
  /\ loads = 0

NoStack == data = Absent /\ position = Absent /\ ref = Absent

NoTimers == timers = Absent /\ mtimers = Absent /\ calls = Absent /\ epoch = Absent

NoInterpreterFields ==
  /\ memory = Absent
  /\ pc = Absent
  /\ i = Absent
  /\ registers = Absent
  /\ screen_buffer = Absent
  /\ program = Absent
  /\ loads = Absent

Fresh == op = "new" /\ arg = <<>> /\ ret = Unit /\ halted = "none"

\* let mut interpreter = Interpreter::new()
Init == InterpreterFields /\ StackConstructed /\ TimersConstructed /\ Fresh

\* A Stack on its own, as in tests::stack_pushing_and_popping.
InitStack == StackConstructed /\ NoInterpreterFields /\ NoTimers /\ Fresh

\* Timers on their own, as in tests::decrement_timers.
InitTimers == TimersConstructed /\ NoInterpreterFields /\ NoStack /\ Fresh

\* -------------------------------------------------------------------- Stack

\* if self.position > STACK_SIZE - 1
\* (faulty variant: the comparison against STACK_SIZE)
StackFullOffByOne(pos) == pos > STACK_SIZE
StackFull(pos) == pos > STACK_SIZE - 1

\* self.data[self.position] = byte
PushStore(d, pos, byte) == [d EXCEPT ![pos] = byte]

\* self.position == 0
StackEmpty(pos) == pos = 0

\* return None
\* (faulty variant: the stale byte at the cursor is returned)
PopEmptyStale(d, pos) == [position |-> pos, value |-> Some(d[pos])]
PopEmpty(d, pos) == [position |-> pos, value |-> None]

\* self.position -= 1; Some(self.data[self.position])
\* (faulty variant: the cell is read before the cursor retreats)
PopReadAtCursor(d, pos) == [position |-> pos - 1, value |-> Some(d[pos])]
PopRead(d, pos) == [position |-> pos - 1, value |-> Some(d[pos - 1])]

\* The reference LIFO sequence, run beside the stack on the same calls: a
\* push appends unless STACK_SIZE entries are held, a pop removes the last.
RefPush(s, byte) == IF Len(s) < STACK_SIZE THEN Append(s, byte) ELSE s
RefPop(s) == IF s = <<>> THEN s ELSE SubSeq(s, 1, Len(s) - 1)

push(byte) ==
  /\ Running
  /\ op' = "push"
  /\ arg' = byte
  /\ IF StackFull(position)
       THEN /\ halted' = "stack overflow"
            /\ ret' = Panicked
            /\ UNCHANGED <<data, position>>
       ELSE /\ data' = PushStore(data, position, byte)
            /\ position' = position + 1
            /\ ret' = Unit
            /\ UNCHANGED halted
  /\ ref' = RefPush(ref, byte)
  /\ UNCHANGED <<memVars, regVars, timerVars>>

pop ==
  /\ Running
  /\ op' = "pop"
  /\ arg' = <<>>
  /\ IF StackEmpty(position)
       THEN /\ position' = PopEmpty(data, position).position
            /\ ret' = PopEmpty(data, position).value
            /\ UNCHANGED data
       ELSE /\ position' = PopRead(data, position).position
            /\ ret' = PopRead(data, position).value
            /\ UNCHANGED data
  /\ ref' = RefPop(ref)
  /\ UNCHANGED <<halted, memVars, regVars, timerVars>>

Push == \E byte \in PushInputs(position) : push(byte)

Pop == pop

NextStack == Push \/ Pop

SpecStack == InitStack /\ [][NextStack]_vars

\* -------------------------------------------------------------- Interpreter

\* self.memory[PC_START_ADDRESS + i] = *byte, for every byte of the slice in
\* order: the index is checked, so the loop panics at the first i with
\* PC_START_ADDRESS + i = MEMORY_SIZE, the bytes before it already stored.
\* (faulty variants: a load that truncates silently, and one that drops the
\* last byte of the slice)
LoadTruncates(bytes) == FALSE
LoadOutOfBounds(bytes) == PC_START_ADDRESS + Len(bytes) > MEMORY_SIZE

LoadStoreShort(mem, bytes) ==
  LET At(a) == IF a >= PC_START_ADDRESS /\ a - PC_START_ADDRESS < Len(bytes) - 1
                 THEN bytes[a - PC_START_ADDRESS + 1]
                 ELSE Byte(mem, a)
  IN [p \in Pages |-> [k \in Offsets |-> At(p * PageSize + k)]]

\* (faulty variant: the bytes are stored from address 0, without PC_START_ADDRESS)
LoadStoreFromZero(mem, bytes) ==
  LET At(a) == IF a < Len(bytes) THEN bytes[a + 1] ELSE Byte(mem, a)
  IN [p \in Pages |-> [k \in Offsets |-> At(p * PageSize + k)]]

LoadStore(mem, bytes) ==
  LET At(a) == IF a >= PC_START_ADDRESS /\ a - PC_START_ADDRESS < Len(bytes)
                 THEN bytes[a - PC_START_ADDRESS + 1]
                 ELSE Byte(mem, a)
      \* the pages the loop writes into; the others are kept whole
      Written(p) == /\ (p + 1) * PageSize > PC_START_ADDRESS
                    /\ p * PageSize < PC_START_ADDRESS + Len(bytes)
  IN [p \in Pages |-> IF Written(p)
                        THEN [k \in Offsets |-> At(p * PageSize + k)]
                        ELSE mem[p]]

load_program(bytes) ==
  /\ Running
  /\ loads < MaxLoads
  /\ pc <= PC_START_ADDRESS + 2 * MaxFetchesBeforeLoad
  /\ op' = "load_program"
  /\ arg' = <<>>
  /\ program' = bytes
  /\ loads' = loads + 1
  /\ memory' = LoadStore(memory, bytes)
  /\ IF LoadOutOfBounds(bytes)
       THEN halted' = "index out of bounds" /\ ret' = Panicked
       ELSE UNCHANGED halted /\ ret' = Unit
  /\ UNCHANGED <<pc, regVars, stackVars, timerVars>>

\* ((self.memory[self.pc] as u16) << 8) | self.memory[self.pc + 1] as u16
\* (faulty variant: the bytes swapped)
LittleEndian(hi, lo) == ((lo * 256) % 65536) + hi
BigEndian(hi, lo) == ((hi * 256) % 65536) + lo

\* the checked indices self.memory[self.pc] and self.memory[self.pc + 1]
FetchOutOfBounds(p) == p >= MEMORY_SIZE \/ p + 1 >= MEMORY_SIZE

\* (faulty variant of fetch_instruction: addresses and PC wrap at MEMORY_SIZE)
fetch_instruction_wrapping ==
  /\ Running
  /\ op' = "fetch_instruction"
  /\ arg' = <<>>
  /\ ret' = <<"u16", BigEndian(Byte(memory, pc % MEMORY_SIZE),
                               Byte(memory, (pc + 1) % MEMORY_SIZE))>>
  /\ pc' = (pc + 2) % MEMORY_SIZE
  /\ UNCHANGED <<halted, memory, program, loads, regVars, stackVars, timerVars>>

\* self.pc += 2
\* (faulty variant: the PC steps over one byte)
PcAfterOneByte(p) == p + 1
PcAfterFetch(p) == p + 2

fetch_instruction ==
  /\ Running
  /\ op' = "fetch_instruction"
  /\ arg' = <<>>
  /\ IF FetchOutOfBounds(pc)
       THEN /\ halted' = "index out of bounds"
            /\ ret' = Panicked
            /\ UNCHANGED pc
       ELSE /\ ret' = <<"u16", BigEndian(Byte(memory, pc), Byte(memory, pc + 1))>>
            /\ pc' = PcAfterFetch(pc)
            /\ UNCHANGED halted
  /\ UNCHANGED <<memory, program, loads, regVars, stackVars, timerVars>>

LoadProgram == \E bytes \in RomInputs : load_program(bytes)

FetchInstruction == fetch_instruction

NextMem == LoadProgram \/ FetchInstruction

SpecMem == Init /\ [][NextMem]_vars

\* -------------------------------------------------------------- Instruction

\* u16 arithmetic: x >> n, and x & y bit by bit.
ShiftRight(x, n) == x \div (2 ^ n)

RECURSIVE BitAnd(_, _)
BitAnd(x, y) ==
  IF x = 0 \/ y = 0
    THEN 0
    ELSE (x % 2) * (y % 2) + 2 * BitAnd(x \div 2, y \div 2)

\* assert!(position < 4)
\* (faulty variant: position < 3)
NibblePositionBelow3(pos) == pos < 3
NibblePositionOk(pos) == pos < 4

\* let mask = 0xF000 >> position * 4
\* (faulty variant: the shift taken before the multiplication)
NibbleMaskPrecedence(pos) == ShiftRight(61440, pos) * 4
NibbleMask(pos) == ShiftRight(61440, pos * 4)

\* let shift = 12 - position * 4
\* (faulty variant: the position counted from the least significant nibble)
NibbleShiftFromRight(pos) == pos * 4
NibbleShift(pos) == 12 - pos * 4

\* ((bytes & mask) >> shift) as u8, or the panic of the failed assertion
nibble_left(bytes, pos) ==
  IF NibblePositionOk(pos)
    THEN <<"u8", ShiftRight(BitAnd(bytes, NibbleMask(pos)), NibbleShift(pos)) % 256>>
    ELSE Panicked

NotImplemented == <<"NotImplemented">>
ClearScreen == <<"ClearScreen">>

\* An instruction of the given tag whose operands are the nibbles `nibbles`
\* (results of nibble_left) followed by `rest`; the panic of a nibble_left
\* call among them propagates.
WithNibbles(tag, nibbles, rest) ==
  IF \E n \in 1 .. Len(nibbles) : nibbles[n] = Panicked
    THEN Panicked
    ELSE <<tag>> \o [n \in 1 .. Len(nibbles) |-> nibbles[n][2]] \o rest

from_raw(bytes) ==
  LET top == nibble_left(bytes, 0) IN
  IF top = Panicked THEN Panicked
  ELSE CASE top[2] = 0 -> IF bytes = 224 THEN ClearScreen ELSE NotImplemented
         [] top[2] = 1 -> <<"Jump", BitAnd(bytes, 4095)>>
         [] top[2] = 6 ->
              WithNibbles("SetRegister", <<nibble_left(bytes, 1)>>, <<BitAnd(bytes, 255)>>)
         [] top[2] = 7 ->
              WithNibbles("AddToRegister", <<nibble_left(bytes, 1)>>, <<BitAnd(bytes, 255)>>)
         [] top[2] = 10 -> <<"SetI", BitAnd(bytes, 4095)>>
         [] top[2] = 13 ->
              WithNibbles("DrawSprite",
                          <<nibble_left(bytes, 1), nibble_left(bytes, 2), nibble_left(bytes, 3)>>,
                          <<>>)
         [] OTHER -> NotImplemented

\* Every 16-bit word.
Words == 0 .. 65535

\* One from_raw call on the word drawn for the run.
FromRaw ==
  /\ Running
  /\ op = "new"
  /\ op' = "from_raw"
  /\ ret' = from_raw(arg)
  /\ halted' = IF from_raw(arg) = Panicked THEN "assertion failed" ELSE halted
  /\ UNCHANGED <<arg, memVars, regVars, stackVars, timerVars>>

\* from_raw is an associated function: no object is constructed, and the
\* word it is called with is any of Words.
InitDecode ==
  /\ NoInterpreterFields /\ NoStack /\ NoTimers
  /\ op = "new"
  /\ arg \in Words
  /\ ret = Unit
  /\ halted = "none"

NextDecode == FromRaw

SpecDecode == InitDecode /\ [][NextDecode]_vars

\* nibble_left is called with positions up to MaxPosition.
MaxPosition == 5

Positions == 0 .. MaxPosition

\* One nibble_left call on the word and the position drawn for the run.
NibbleLeft ==
  /\ Running
  /\ op = "new"
  /\ op' = "nibble_left"
  /\ ret' = nibble_left(arg[1], arg[2])
  /\ halted' = IF nibble_left(arg[1], arg[2]) = Panicked THEN "assertion failed" ELSE halted
  /\ UNCHANGED <<arg, memVars, regVars, stackVars, timerVars>>

\* nibble_left is an associated function too: it is called with any word
\* and any position of Positions.
InitNibble ==
  /\ NoInterpreterFields /\ NoStack /\ NoTimers
  /\ op = "new"
  /\ arg \in Words \X Positions
  /\ ret = Unit
  /\ halted = "none"

NextNibble == NibbleLeft

SpecNibble == InitNibble /\ [][NextNibble]_vars

\* C20: for every 16-bit word w and position p in 0 .. 3, nibble_left(w, p)
\* returns (w >> (12 - 4p)) & 0xF, a value in 0 .. 15, without panicking; a
\* call with p >= 4 fails the assertion and returns nothing.
C20_NibbleLeft ==
  op = "nibble_left" =>
    IF arg[2] \in 0 .. 3
      THEN /\ ret = <<"u8", BitAnd(ShiftRight(arg[1], 12 - 4 * arg[2]), 15)>>
           /\ ret[2] \in 0 .. 15
           /\ halted = "none"
      ELSE /\ ret = Panicked
           /\ halted = "assertion failed"

\* C20 witness: nibble_left(0x1234, 2) has returned 3.
C20_Witness ==
  /\ op = "nibble_left"
  /\ arg = <<4660, 2>>
  /\ ret = <<"u8", 3>>
  /\ halted = "none"

\* The variant names of enum Instruction.
Variants ==
  {"NotImplemented", "ClearScreen", "Jump", "SetRegister", "AddToRegister", "SetI",
   "DrawSprite"}

\* The nibbles of a word, by division: n = 0 the most significant.
Nib(w, n) == (w \div (16 ^ (3 - n))) % 16

\* C8: from_raw is total over the 65536 words: the call never panics (no
\* nibble_left assertion fails), its result is one of the seven variants, and
\* a word other than 0x00E0 whose top nibble is not 1, 6, 7, 0xA or 0xD
\* decodes to NotImplemented.
C8_DecodeTotal ==
  op = "from_raw" =>
    /\ halted = "none"
    /\ ret # Panicked
    /\ ret[1] \in Variants
    /\ (arg # 224 /\ Nib(arg, 0) \notin {1, 6, 7, 10, 13}) => ret = NotImplemented

\* C8 witness: 0x00EE, the canonical return-from-subroutine, decoded to
\* NotImplemented.
C8_Witness ==
  /\ op = "from_raw"
  /\ arg = 238
  /\ ret = NotImplemented

\* C9: from_raw extracts the operands of the decode table: 0x1nnn is
\* Jump(w mod 4096), 0x6xkk SetRegister(x, w mod 256), 0x7xkk
\* AddToRegister(x, w mod 256), 0xAnnn SetI(w mod 4096) and 0xDxyn
\* DrawSprite(x, y, n) for the 2nd, 3rd and 4th nibble, and 0x00E0 is
\* ClearScreen; register indices and heights are in 0 .. 15, addresses in
\* 0 .. 4095 and immediates in 0 .. 255.
C9_DecodeOperands ==
  op = "from_raw" =>
    /\ arg = 224 => ret = ClearScreen
    /\ Nib(arg, 0) = 1 => ret = <<"Jump", arg % 4096>>
    /\ Nib(arg, 0) = 6 => ret = <<"SetRegister", Nib(arg, 1), arg % 256>>
    /\ Nib(arg, 0) = 7 => ret = <<"AddToRegister", Nib(arg, 1), arg % 256>>
    /\ Nib(arg, 0) = 10 => ret = <<"SetI", arg % 4096>>
    /\ Nib(arg, 0) = 13 => ret = <<"DrawSprite", Nib(arg, 1), Nib(arg, 2), Nib(arg, 3)>>
    /\ ret[1] \in {"Jump", "SetI"} => ret[2] \in 0 .. 4095
    /\ ret[1] \in {"SetRegister", "AddToRegister"} =>
         (ret[2] \in 0 .. 15 /\ ret[3] \in 0 .. 255)
    /\ ret[1] = "DrawSprite" =>
         (ret[2] \in 0 .. 15 /\ ret[3] \in 0 .. 15 /\ ret[4] \in 0 .. 15)

\* C9 witness: 0xD123 decoded to DrawSprite(1, 2, 3).
C9_Witness ==
  /\ op = "from_raw"
  /\ arg = 53539
  /\ ret = <<"DrawSprite", 1, 2, 3>>

\* ------------------------------------------------------------------- Timers

\* TIMER_DECREMENT_FREQUENCY * delta.as_secs_f32() + self.rounding_remainder,
\* in sub-ticks
\* (faulty variant: one tick for every call, whatever time has passed)
AmountPerCall(delta, remainder) == SubTicks + remainder
Amount(delta, remainder) ==
  (TIMER_DECREMENT_FREQUENCY * delta * SubTicks) \div ClockHz + remainder

\* amount.floor(), in ticks
Floor(amount) == amount \div SubTicks

\* amount - amount.floor(), in sub-ticks
Fraction(amount) == amount % SubTicks

\* `as u8` of a non-negative f32: the cast saturates at 255
\* (faulty variant: the cast wraps modulo 256)
WrappingU8(x) == x % 256
AsU8(x) == IF x > 255 THEN 255 ELSE x

\* if timer > amount { timer -= amount } else { timer = 0 }
\* (faulty variant: the subtraction without the comparison, wrapping below 0)
DecrementWrapping(timer, amount) == (timer - amount) % 256
Decrement(timer, amount) == IF timer > amount THEN timer - amount ELSE 0

\* self.delay_timer + self.sound_timer on u8: the sum, or no value where the
\* true sum exceeds 255
U8Overflows(x, y) == x + y > 255

\* interpreter.rs Timers::decrement_timers up to the test of line 177
TimersDecremented(t, delta) ==
  [delay_timer |-> Decrement(t.delay_timer, AsU8(Floor(Amount(delta, t.rounding_remainder)))),
   sound_timer |-> Decrement(t.sound_timer, AsU8(Floor(Amount(delta, t.rounding_remainder)))),
   rounding_remainder |-> Fraction(Amount(delta, t.rounding_remainder))]

\* if self.delay_timer + self.sound_timer == 0 { self.rounding_remainder = 0.0 }
\* `sum` is the value the u8 addition gave
ResetRemainder(t, sum) ==
  IF sum = 0 THEN [t EXCEPT !.rounding_remainder = 0] ELSE t

\* main.rs Timers::decrement_timers: the same without the test
MainTimersDecremented(t, delta) ==
  [delay_timer |-> Decrement(t.delay_timer, AsU8(Floor(Amount(delta, t.rounding_remainder)))),
   sound_timer |-> Decrement(t.sound_timer, AsU8(Floor(Amount(delta, t.rounding_remainder)))),
   rounding_remainder |-> Fraction(Amount(delta, t.rounding_remainder))]

\* One decrement_timers call of both Timers, run side by side, delta after
\* the call before. Where the u8 addition of line 177 overflows, a build with
\* overflow checks panics there and a build without them goes on with the
\* wrapped sum: both outcomes are modelled.
decrement_timers(delta) ==
  /\ Running
  /\ calls < MaxDecrements
  /\ calls' = calls + 1
  /\ epoch' = [epoch EXCEPT !.elapsed = @ + delta]
  /\ op' = "decrement_timers"
  /\ arg' = delta
  /\ mtimers' = MainTimersDecremented(mtimers, delta)
  /\ LET t == TimersDecremented(timers, delta) IN
       IF U8Overflows(t.delay_timer, t.sound_timer)
         THEN \/ /\ timers' = t
                 /\ halted' = "attempt to add with overflow"
                 /\ ret' = Panicked
              \/ /\ timers' = ResetRemainder(t, (t.delay_timer + t.sound_timer) % 256)
                 /\ ret' = Unit
                 /\ UNCHANGED halted
         ELSE /\ timers' = ResetRemainder(t, t.delay_timer + t.sound_timer)
              /\ ret' = Unit
              /\ UNCHANGED halted
  /\ UNCHANGED <<memVars, regVars, stackVars>>

\* timers.delay_timer = value (the fields are public)
set_delay_timer(value) ==
  /\ Running
  /\ op' = "set_delay_timer"
  /\ arg' = value
  /\ ret' = Unit
  /\ timers' = [timers EXCEPT !.delay_timer = value]
  /\ mtimers' = [mtimers EXCEPT !.delay_timer = value]
  /\ epoch' = [timers |-> timers', mtimers |-> mtimers', elapsed |-> 0]
  /\ UNCHANGED <<calls, halted, memVars, regVars, stackVars>>

\* timers.sound_timer = value
set_sound_timer(value) ==
  /\ Running
  /\ op' = "set_sound_timer"
  /\ arg' = value
  /\ ret' = Unit
  /\ timers' = [timers EXCEPT !.sound_timer = value]
  /\ mtimers' = [mtimers EXCEPT !.sound_timer = value]
  /\ epoch' = [timers |-> timers', mtimers |-> mtimers', elapsed |-> 0]
  /\ UNCHANGED <<calls, halted, memVars, regVars, stackVars>>

DecrementTimers == \E delta \in Deltas : decrement_timers(delta)

SetDelayTimer == \E value \in DelayValues : set_delay_timer(value)

SetSoundTimer == \E value \in SoundValues : set_sound_timer(value)

NextTimers == DecrementTimers \/ SetDelayTimer \/ SetSoundTimer

SpecTimers == InitTimers /\ [][NextTimers]_vars

\* floor(60 * elapsed_seconds + carried_fraction) for an elapsed time and a
\* carry in sub-ticks.
WholeTicks(delta, carry) == (delta + carry) \div SubTicks

Max0(x) == IF x < 0 THEN 0 ELSE x

\* C10: a decrement_timers call subtracts n = floor(60 * elapsed + carry)
\* from each timer on its own, flooring at 0: the new delay timer is
\* max(0, delay - n) and the new sound timer max(0, sound - n), for the
\* Timers of interpreter.rs and of main.rs alike, and both stay in 0 .. 255,
\* also when n exceeds 255.
C10_DecrementFloors ==
  [][ op' = "decrement_timers" =>
        /\ LET n == WholeTicks(arg', timers.rounding_remainder) IN
             /\ timers'.delay_timer = Max0(timers.delay_timer - n)
             /\ timers'.sound_timer = Max0(timers.sound_timer - n)
        /\ LET n == WholeTicks(arg', mtimers.rounding_remainder) IN
             /\ mtimers'.delay_timer = Max0(mtimers.delay_timer - n)
             /\ mtimers'.sound_timer = Max0(mtimers.sound_timer - n)
        /\ timers'.delay_timer \in 0 .. 255
        /\ timers'.sound_timer \in 0 .. 255 ]_vars

\* C10 witness: a call that measured more than 256 ticks, so n > 255, has
\* completed and left both timers at 0.
C10_Witness ==
  /\ op = "decrement_timers"
  /\ arg = 256 * SubTicks + 1
  /\ halted = "none"
  /\ timers.delay_timer = 0
  /\ timers.sound_timer = 0
  /\ mtimers.delay_timer = 0
  /\ mtimers.rounding_remainder # 0

\* C11: over decrement_timers calls each timer only goes down, a timer at 0
\* stays at 0, and between the calls a timer changes only when it is set:
\* a decrement_timers step leaves each timer at or below its value before
\* and at or above 0, and a step that changes a timer is a decrement_timers
\* call or a set of that timer. For the Timers of both modules.
C11_Monotone ==
  [][ /\ op' = "decrement_timers" =>
           /\ timers'.delay_timer \in 0 .. timers.delay_timer
           /\ timers'.sound_timer \in 0 .. timers.sound_timer
           /\ mtimers'.delay_timer \in 0 .. mtimers.delay_timer
           /\ mtimers'.sound_timer \in 0 .. mtimers.sound_timer
      /\ (timers'.delay_timer # timers.delay_timer
            \/ mtimers'.delay_timer # mtimers.delay_timer) =>
           op' \in {"decrement_timers", "set_delay_timer"}
      /\ (timers'.sound_timer # timers.sound_timer
            \/ mtimers'.sound_timer # mtimers.sound_timer) =>
           op' \in {"decrement_timers", "set_sound_timer"} ]_vars

\* C11 witness: a later decrement_timers call that measured a tick or more
\* has run with the sound timer already counted down to 0 and the delay
\* timer still counting.
C11_Witness ==
  /\ op = "decrement_timers"
  /\ calls >= 2
  /\ arg >= SubTicks
  /\ halted = "none"
  /\ timers.sound_timer = 0
  /\ timers.delay_timer \in 1 .. 254
  /\ mtimers.sound_timer = 0
  /\ mtimers.delay_timer \in 1 .. 254

\* Both timers of a Timers value are 0.
BothZero(t) == t.delay_timer = 0 /\ t.sound_timer = 0

\* A Timers value with both timers at 0 carries no fraction.
CarryReset(t) == BothZero(t) => t.rounding_remainder = 0

\* C12: after a decrement_timers call that leaves both the delay timer and
\* the sound timer at 0, the carried fraction is 0, for the Timers of
\* interpreter.rs and for the Timers of main.rs.
C12_CarryReset ==
  op = "decrement_timers" => CarryReset(timers) /\ CarryReset(mtimers)

\* The half of C12 that is about interpreter.rs alone.
InterpreterCarryReset ==
  op = "decrement_timers" => CarryReset(timers)

\* The fractional part of 60 * elapsed_seconds + carried_fraction, for an
\* elapsed time and a carry in sub-ticks.
CarriedFraction(delta, carry) == (delta + carry) % SubTicks

\* C13: a decrement_timers call of the interpreter.rs Timers that leaves at
\* least one timer non-zero keeps the fractional part of 60 * elapsed + carry
\* as the carry of the next call; the carry is discarded only when both
\* timers are 0.
C13_CarryKept ==
  [][ (op' = "decrement_timers" /\ ~BothZero(timers')) =>
        timers'.rounding_remainder = CarriedFraction(arg', timers.rounding_remainder) ]_vars

\* The same for the main.rs Timers, which never discards the carry.
MainCarryKept ==
  [][ op' = "decrement_timers" =>
        mtimers'.rounding_remainder = CarriedFraction(arg', mtimers.rounding_remainder) ]_vars

\* C13 where the u8 sum of line 177 does not overflow.
CarryKeptWithoutOverflow ==
  [][ (op' = "decrement_timers" /\ ~BothZero(timers')
         /\ ~U8Overflows(timers'.delay_timer, timers'.sound_timer)) =>
        timers'.rounding_remainder = CarriedFraction(arg', timers.rounding_remainder) ]_vars

\* C14: a decrement_timers call that measures no elapsed time, the carry
\* being below one tick, leaves the delay timer and the sound timer as they
\* were, so a second call right after a first one changes nothing more. For
\* the Timers of both modules.
C14_ByElapsedTime ==
  [][ (/\ op' = "decrement_timers"
       /\ arg' = 0
       /\ timers.rounding_remainder < SubTicks
       /\ mtimers.rounding_remainder < SubTicks) =>
        /\ timers'.delay_timer = timers.delay_timer
        /\ timers'.sound_timer = timers.sound_timer
        /\ mtimers'.delay_timer = mtimers.delay_timer
        /\ mtimers'.sound_timer = mtimers.sound_timer ]_vars

\* C14 witness: a call that measured no elapsed time has run after an
\* earlier call counted the delay timer down; the timer is still counting
\* and a fraction of a tick is carried.
C14_Witness ==
  /\ op = "decrement_timers"
  /\ arg = 0
  /\ calls >= 2
  /\ halted = "none"
  /\ timers.delay_timer \in 1 .. 254
  /\ timers.rounding_remainder \in 1 .. SubTicks - 1
  /\ mtimers.delay_timer \in 1 .. 254
  /\ mtimers.rounding_remainder \in 1 .. SubTicks - 1

\* What a timer has lost since the epoch began.
LostDelay(t, t0) == t0.delay_timer - t.delay_timer
LostSound(t, t0) == t0.sound_timer - t.sound_timer

\* A Timers value t that began the epoch as t0 shows no drift: each timer
\* still above zero has lost floor(60 * T + initial carry), T the time
\* elapsed in the epoch however it was split into calls, and the carry is
\* below one tick.
NoDrift(t, t0) ==
  /\ t.delay_timer > 0 =>
       LostDelay(t, t0) = WholeTicks(epoch.elapsed, t0.rounding_remainder)
  /\ t.sound_timer > 0 =>
       LostSound(t, t0) = WholeTicks(epoch.elapsed, t0.rounding_remainder)
  /\ t.rounding_remainder \in 0 .. SubTicks - 1

\* C15: however an elapsed interval is split into decrement_timers calls, a
\* timer of the interpreter.rs Timers that is still above zero has lost
\* exactly floor(60 * T + initial carry) over the interval, and the carried
\* fraction is at least 0 and below one tick.
C15_NoDrift == NoDrift(timers, epoch.timers)

\* The same for the main.rs Timers.
MainNoDrift == NoDrift(mtimers, epoch.mtimers)

\* C15 for the epochs in which the u8 sum of line 177 cannot overflow: the
\* timers only go down within an epoch, so their sum stays at or below the
\* sum they began with.
NoDriftWithoutOverflow ==
  ~U8Overflows(epoch.timers.delay_timer, epoch.timers.sound_timer) =>
    NoDrift(timers, epoch.timers)

\* C18: a decrement_timers call of the interpreter.rs Timers completes
\* normally whatever the timers hold and whatever time has passed: it does
\* not panic, and the u8 sum delay_timer + sound_timer it tests against 0
\* has its true value within 0 .. 255.
C18_NoOverflow ==
  op = "decrement_timers" =>
    /\ halted = "none"
    /\ ~U8Overflows(timers.delay_timer, timers.sound_timer)

\* What C18 says of the subtractions alone: they stay within 0 .. 255.
SubtractionsInRange ==
  /\ timers.delay_timer \in 0 .. 255
  /\ timers.sound_timer \in 0 .. 255
  /\ mtimers.delay_timer \in 0 .. 255
  /\ mtimers.sound_timer \in 0 .. 255

\* Two Timers values show the same delay and sound timer.
SameTimerValues(t, m) ==
  t.delay_timer = m.delay_timer /\ t.sound_timer = m.sound_timer

\* C19: the Timers of interpreter.rs and the Timers of main.rs, run side by
\* side from construction on the same elapsed times, decrement_timers calls
\* and timer sets, hold the same delay timer and the same sound timer after
\* every step.
C19_TimersEquivalent == SameTimerValues(timers, mtimers)

\* What remains of C19 step by step: from equal timers and equal carries one
\* operation leaves the two Timers with the same delay and sound timer.
SameAfterOneStep ==
  [][ timers = mtimers => SameTimerValues(timers', mtimers') ]_vars

\* ------------------------------------------------------ the whole interpreter

\* An Interpreter with its stack and timers, under any interleaving of
\* load_program with a ROM that fits, fetch_instruction, the stack
\* operations and the timer operations. A run makes at most MaxOps of the
\* calls that use something up (a load, a fetch, a decrement_timers call, a
\* push not yet popped), and draws its inputs from a few values each.
MaxOps == 3

WithinBudget ==
  loads + calls + position + (pc - PC_START_ADDRESS) \div 2 < MaxOps

\* ROMs that fit: the empty one, short ones and one that spans several pages.
FittingRoms == {RomOf(0, 0), RomOf(10, 0), RomOf(4, 7), RomOf(5 * PageSize + 1, 3)}

LoadFitting == WithinBudget /\ \E bytes \in FittingRoms : load_program(bytes)

FetchNext == WithinBudget /\ fetch_instruction

PushOne == WithinBudget /\ push(FillByte(position))

PopOne == pop

TickTimers == WithinBudget /\ \E delta \in {1, 2 * SubTicks + 1} : decrement_timers(delta)

SetTimers == set_delay_timer(255) \/ set_sound_timer(3)

NextInterpreter ==
  LoadFitting \/ FetchNext \/ PushOne \/ PopOne \/ TickTimers \/ SetTimers

SpecInterpreter == Init /\ [][NextInterpreter]_vars

\* memory[0x50 + k] == FONT[k] for the 80 font bytes
FontInPlace(mem) ==
  \A k \in 0 .. Len(FONT) - 1 : Byte(mem, FONT_START_ADDRESS + k) = FONT[k + 1]

\* memory is zero outside 0x050 .. 0x09F
ZeroOutsideFont(mem) ==
  \A a \in 0 .. MEMORY_SIZE - 1 :
    (a < FONT_START_ADDRESS \/ a >= FONT_START_ADDRESS + Len(FONT)) => Byte(mem, a) = 0

\* C16: after construction the memory is zero everywhere but at 0x050 ..
\* 0x09F, which hold the 80 font bytes in order, and every state reached by
\* loads of ROMs that fit, fetches, stack operations and timer operations
\* still has the 80 font bytes at 0x050 .. 0x09F.
C16_FontRegion ==
  /\ op = "new" => ZeroOutsideFont(memory)
  /\ FontInPlace(memory)

\* C16 witness: a ROM spanning several pages has been loaded and an
\* instruction fetched, a byte pushed and popped, the timers set and
\* counted down.
C16_Witness ==
  /\ loads = 1
  /\ Len(program) > PageSize
  /\ pc = PC_START_ADDRESS + 2
  /\ position = 0
  /\ data[0] = FillByte(0)
  /\ calls = 1
  /\ timers.delay_timer \in 1 .. 254
  /\ halted = "none"

\* C17: in every state of the interpreter the PC is even and at least
\* 0x200: it starts at 0x200, and a step that changes it is a
\* fetch_instruction call that adds exactly 2.
C17_PcAligned ==
  [][ /\ pc % 2 = 0 /\ pc >= PC_START_ADDRESS
      /\ pc' % 2 = 0 /\ pc' >= PC_START_ADDRESS
      /\ pc' # pc => (op' = "fetch_instruction" /\ pc' = pc + 2) ]_vars

\* C17 witness: the PC has gone over the whole program region by fetches,
\* with a ROM loaded on the way, and stands at the end of memory.
C17_Witness ==
  /\ op = "fetch_instruction"
  /\ loads >= 1
  /\ pc = MEMORY_SIZE
  /\ halted = "none"

\* The bytes a ROM may have and still fit above PC_START_ADDRESS.
RomCapacity == MEMORY_SIZE - PC_START_ADDRESS

\* Everything of the interpreter but its memory and PC.
restVars == <<i, registers, screen_buffer, data, position, timers, mtimers, calls, epoch>>

\* C4: a load_program of a ROM of at most 4096 - 0x200 bytes leaves
\* memory[0x200 + k] = rom[k] for every k below the ROM's length, every other
\* address with the value it had before the call, and PC, index register,
\* registers, stack, timers and pixel buffer unchanged; it does not panic.
C4_LoadProgram ==
  [][ (op' = "load_program" /\ Len(program') <= RomCapacity) =>
        /\ \A k \in 0 .. Len(program') - 1 :
             Byte(memory', PC_START_ADDRESS + k) = program'[k + 1]
        /\ \A a \in 0 .. MEMORY_SIZE - 1 :
             (a < PC_START_ADDRESS \/ a >= PC_START_ADDRESS + Len(program')) =>
               Byte(memory', a) = Byte(memory, a)
        /\ pc' = pc
        /\ restVars' = restVars
        /\ halted' = "none" ]_vars

\* C4 witness: a 4-byte ROM loaded over a ROM that filled the memory, one
\* fetch after the first load: the first ROM's bytes stand above the second.
C4_Witness ==
  /\ op = "load_program"
  /\ loads = 2
  /\ pc = PC_START_ADDRESS + 2
  /\ program = RomOf(4, 7)
  /\ Byte(memory, PC_START_ADDRESS + 3) = RomByte(7, 3)
  /\ Byte(memory, PC_START_ADDRESS + 4) = RomByte(3, 4)
  /\ Byte(memory, MEMORY_SIZE - 1) = RomByte(3, RomCapacity - 1)

\* C5: a load_program of a ROM longer than 4096 - 0x200 bytes ends in the
\* index-out-of-bounds panic, and a panic ends the run: no operation runs in
\* a state that has panicked, so nothing continues on the truncated ROM.
C5_LoadOverflow ==
  [][ /\ halted = "none"
      /\ (op' = "load_program" /\ Len(program') > RomCapacity) =>
           (halted' = "index out of bounds" /\ ret' = Panicked) ]_vars

\* C5 witness: the load of a ROM of 4096 - 0x200 + 1 bytes has panicked, the
\* bytes that fit already stored up to the last address.
C5_Witness ==
  /\ op = "load_program"
  /\ halted = "index out of bounds"
  /\ Len(program) = RomCapacity + 1
  /\ Byte(memory, MEMORY_SIZE - 1) = program[RomCapacity]
  /\ Byte(memory, MEMORY_SIZE - 1) # Byte(MemoryNew, MEMORY_SIZE - 1)

\* C6: a fetch_instruction with PC <= 4094 returns memory[PC] * 256 +
\* memory[PC + 1] for the PC before the call, advances PC by 2 and changes
\* nothing else; where the last loaded ROM covers PC and PC + 1, that is the
\* ROM's byte pair rom[PC - 0x200] * 256 + rom[PC - 0x200 + 1].
C6_Fetch ==
  [][ (op' = "fetch_instruction" /\ pc <= MEMORY_SIZE - 2) =>
        /\ ret' = <<"u16", Byte(memory, pc) * 256 + Byte(memory, pc + 1)>>
        /\ pc' = pc + 2
        /\ memory' = memory
        /\ restVars' = restVars
        /\ halted' = "none"
        /\ (pc - PC_START_ADDRESS + 1 < Len(program)) =>
             ret' = <<"u16", program[pc - PC_START_ADDRESS + 1] * 256
                            + program[pc - PC_START_ADDRESS + 2]>> ]_vars

\* C6 witness: the fifth fetch of tests::fetch_instruction: PROGRAM loaded
\* at PC = 0x200, the fetch at 0x208 returned 0x0809.
C6_Witness ==
  /\ op = "fetch_instruction"
  /\ loads = 1
  /\ program = RomOf(10, 0)
  /\ pc = PC_START_ADDRESS + 10
  /\ ret = <<"u16", 2057>>

\* C7: a fetch with PC >= 4095 panics on the checked index: it returns no
\* word and leaves PC as it was; PC never decreases and never exceeds 4096.
C7_FetchOutOfBounds ==
  /\ [](pc <= MEMORY_SIZE)
  /\ [][ /\ pc' >= pc
         /\ (op' = "fetch_instruction" /\ pc >= MEMORY_SIZE - 1) =>
              (halted' = "index out of bounds" /\ ret' = Panicked /\ pc' = pc) ]_vars

\* C7 witness: the fetch after 1792 fetches from 0x200 has panicked at
\* PC = 4096.
C7_Witness ==
  /\ op = "fetch_instruction"
  /\ halted = "index out of bounds"
  /\ ret = Panicked
  /\ pc = PC_START_ADDRESS + 2 * 1792
  /\ pc = MEMORY_SIZE

\* C1: the stack is last-in-first-out. A pop on a non-empty stack returns the
\* byte the reference LIFO sequence has on top (the most recently pushed byte
\* not yet popped) and removes it, and after every step the stack holds as
\* many entries as the reference (pushes minus successful pops), cell by
\* cell the same bytes.
C1_StackLifo ==
  /\ position = Len(ref)
  /\ [][ /\ (op' = "pop" /\ ref # <<>>) => ret' = Some(ref[Len(ref)])
         /\ (op' = "pop" /\ ref = <<>>) => ret' = None
         /\ position' = Len(ref')
         /\ \A k \in 1 .. Len(ref') : data'[k - 1] = ref'[k] ]_vars

\* C1 witness: the run of tests::stack_pushing_and_popping, at its third pop:
\* 10 and 20 pushed, 20 popped, 30 pushed and popped, then 10 popped.
C1_Witness ==
  /\ op = "pop"
  /\ ret = Some(10)
  /\ position = 0
  /\ data[0] = 10
  /\ data[1] = 30

\* C2: the cursor stays in 0 .. STACK_SIZE. A push below capacity succeeds,
\* stores the byte at the cursor and advances the cursor by one; a push at
\* position = STACK_SIZE ends in the stack-overflow panic with every stack
\* cell and the cursor as they were.
C2_StackBounded ==
  /\ [](position \in 0 .. STACK_SIZE)
  /\ [][ op' = "push" =>
           IF position = STACK_SIZE
             THEN /\ halted' = "stack overflow"
                  /\ data' = data
                  /\ position' = position
             ELSE /\ halted' = "none"
                  /\ position' = position + 1
                  /\ data' = [data EXCEPT ![position] = arg'] ]_vars

\* C2 witness: the 49th push on a stack filled by 48 pushes has panicked.
C2_Witness ==
  /\ halted = "stack overflow"
  /\ op = "push"
  /\ position = STACK_SIZE
  /\ \A c \in VariedDepth .. STACK_SIZE - 1 : data[c] = FillByte(c)

\* C3: a pop at cursor 0 returns None, does not panic and leaves the cursor
\* at 0 and the cells unchanged, whatever stale bytes the cells hold; a push
\* at cursor 0 stores at cell 0 and a pop right after it returns that byte.
C3_PopEmpty ==
  [][ /\ (op' = "pop" /\ position = 0) =>
         (ret' = None /\ halted' = "none" /\ position' = 0 /\ data' = data)
      /\ (op' = "push" /\ position = 0) =>
         (position' = 1 /\ data'[0] = arg' /\ halted' = "none")
      /\ (op' = "pop" /\ op = "push" /\ position = 1) =>
         (ret' = Some(arg) /\ position' = 0) ]_vars

\* C3 witness: a pop on a stack that was filled to capacity and drained: the
\* cells still hold the stale bytes and the pop returned None.
C3_Witness ==
  /\ op = "pop"
  /\ ret = None
  /\ position = 0
  /\ halted = "none"
  /\ \A c \in 0 .. STACK_SIZE - 1 : data[c] # 0

====
